---- MODULE Spec2Model ----
(***************************************************************************)
(* A model of tui-launcher: the terminal detector, the command builder,    *)
(* TUILauncher.launch with its child-process events, DatabaseService and   *)
(* RegistryManager on the tuis / launch_history tables, and the keyboard   *)
(* handlers of App and ShowcaseTab with the start-up of the application.   *)
(***************************************************************************)
EXTENDS Integers, Sequences, FiniteSets, TLC

VARIABLES
  tuis,            \* table tuis: id -> row
  launch_history,  \* table launch_history: sequence of rows, in insertion order
  calls,           \* call number -> state of that TUILauncher.launch call
  now,             \* Date.now() / CURRENT_TIMESTAMP
  proc,            \* the process: "stopped", "running", "exited", "crashed"
  detect,          \* inputs and result of one detectTerminal() evaluation
  build,           \* inputs and result of one buildLaunchCommand() evaluation
  sqlite_sequence, \* the largest id table tuis has handed out
  registryCall,    \* the RegistryManager call made by the last step, if any
  activeTab,       \* store: id of the tab that is rendered
  selectedTabIndex,\* App: index of the selected tab, from 0
  selectedButton,  \* ShowcaseTab: 0 = Launch, 1 = Skip, 2 = Favorite
  showcaseTUI,     \* store: the TUI object the Showcase tab shows, or null
  key              \* the key event handled by the last step, if it was one

(* The state of the user interface. *)
ui == <<activeTab, selectedTabIndex, selectedButton, showcaseTUI, key>>

vars == <<tuis, launch_history, calls, now, proc, detect, build,
          sqlite_sequence, registryCall, ui>>

-----------------------------------------------------------------------------
(* Bounds of the model *)

MaxCalls == 2      \* launch calls per behaviour
MaxTuis == 2       \* rows of table tuis
MaxTime == 1       \* the clock stops advancing here
MaxExit == 1       \* child exit codes are 0..MaxExit
MaxArgs == 2       \* length of options.args
MaxFailing == 1    \* probes that fail to run in one detection
MaxSeeds == 2      \* times the builtin TUIs are seeded in one behaviour

(* An optional number that is undefined / null / SQL NULL, and an optional *)
(* string that is undefined / null / SQL NULL.                             *)
Absent == -1
NoStr == "<absent>"

-----------------------------------------------------------------------------
(* Terminal Detector *)

terminals ==
  << "alacritty", "kitty", "wezterm", "gnome-terminal", "konsole",
     "xterm", "urxvt", "terminator", "tilix" >>

Range(s) == { s[i] : i \in DOMAIN s }

(* One probe, Bun.spawn(['which', terminal]) and await proc.exited: it     *)
(* throws when the probe cannot be run, else `which` exits 0 exactly when  *)
(* the binary is on the search path.                                       *)
Probe(terminal, present, failing) ==
  IF terminal \in failing THEN "throw"
  ELSE IF terminal \in present THEN "0" ELSE "1"

(* detectFrom without the try/catch around the probe. *)
RECURSIVE detectFromNoCatch(_, _, _)
detectFromNoCatch(i, present, failing) ==
  IF i > Len(terminals)
    THEN [result |-> NoStr, probes |-> 0, threw |-> FALSE]
    ELSE IF Probe(terminals[i], present, failing) = "throw"
      THEN [result |-> NoStr, probes |-> 1, threw |-> TRUE]
    ELSE IF Probe(terminals[i], present, failing) = "0"
      THEN [result |-> terminals[i], probes |-> 1, threw |-> FALSE]
      ELSE LET rest == detectFromNoCatch(i + 1, present, failing)
           IN  [rest EXCEPT !.probes = @ + 1]

RECURSIVE detectFrom(_, _, _)
detectFrom(i, present, failing) ==
  IF i > Len(terminals)
    THEN [result |-> NoStr, probes |-> 0, threw |-> FALSE]
    ELSE IF Probe(terminals[i], present, failing) = "0"
      THEN [result |-> terminals[i], probes |-> 1, threw |-> FALSE]
      ELSE LET rest == detectFrom(i + 1, present, failing)
           IN  [rest EXCEPT !.probes = @ + 1]

(* detectTerminal(): result is the terminal found or NoStr for null;       *)
(* probes counts the `which` subprocesses; threw tells whether an          *)
(* exception left the function.                                            *)
detectTerminal(present, failing) == detectFrom(1, present, failing)

-----------------------------------------------------------------------------
(* Command Builder *)

RECURSIVE join(_, _)
join(args, sep) ==
  IF Len(args) = 0 THEN ""
  ELSE IF Len(args) = 1 THEN args[1]
  ELSE args[1] \o sep \o join(Tail(args), sep)

(* fullCommand without the test for an empty args. *)
fullCommandNoTest(command, args) == command \o " " \o join(args, " ")

fullCommand(command, args) ==
  IF Len(args) > 0 THEN command \o " " \o join(args, " ") ELSE command

buildLaunchCommand(terminal, command, args) ==
  LET fc == fullCommand(command, args) IN
  CASE terminal = "alacritty"      -> <<"alacritty", "-e", "sh", "-c", fc>>
    [] terminal = "kitty"          -> <<"kitty", "sh", "-c", fc>>
    [] terminal = "wezterm"        -> <<"wezterm", "start", "--", "sh", "-c", fc>>
    [] terminal = "gnome-terminal" -> <<"gnome-terminal", "--", "sh", "-c", fc>>
    [] terminal = "konsole"        -> <<"konsole", "-e", "sh", "-c", fc>>
    [] terminal = "xterm"          -> <<"xterm", "-e", "sh", "-c", fc>>
    [] terminal = "urxvt"          -> <<"urxvt", "-e", "sh", "-c", fc>>
    [] terminal = "terminator"     -> <<"terminator", "-x", "sh", "-c", fc>>
    [] terminal = "tilix"          -> <<"tilix", "-e", "sh", "-c", fc>>
    [] OTHER                       -> <<"xterm", "-e", "sh", "-c", fc>>

-----------------------------------------------------------------------------
(* DatabaseService *)

(* JavaScript `x || null` on an optional number and an optional string:    *)
(* undefined, 0 and "" are falsy and become NULL.                          *)
orNullNum(x) == IF x = Absent \/ x = 0 THEN Absent ELSE x
orNullStr(s) == IF s = NoStr \/ s = "" THEN NoStr ELSE s

(* The ways one addLaunchHistory call can go in the store: both statements *)
(* run, the INSERT fails, or the INSERT runs and the UPDATE fails.         *)
StoreFaults == {"none", "insert", "update"}

(* addLaunchHistory whose UPDATE has no WHERE clause. *)
addLaunchHistoryNoWhere(t, h, history, ts, fault) ==
  IF fault = "insert" \/ history.tui_id \notin DOMAIN t
    THEN [tuis |-> t, launch_history |-> h, threw |-> TRUE]
    ELSE LET row == [tui_id        |-> history.tui_id,
                     launched_at   |-> ts,
                     exit_code     |-> orNullNum(history.exit_code),
                     duration_ms   |-> orNullNum(history.duration_ms),
                     error_message |-> orNullStr(history.error_message)]
             h2 == Append(h, row)
         IN  IF fault = "update"
               THEN [tuis |-> t, launch_history |-> h2, threw |-> TRUE]
               ELSE [tuis |-> [id \in DOMAIN t |->
                                 [t[id] EXCEPT !.launch_count = @ + 1,
                                               !.last_launched_at = ts]],
                     launch_history |-> h2,
                     threw |-> FALSE]

(* addLaunchHistory(history) on tables t (tuis) and h (launch_history) at  *)
(* time ts.  The INSERT fails on a store fault and on a tui_id with no     *)
(* tuis row (FOREIGN KEY with foreign_keys = ON); each statement commits   *)
(* on its own.                                                             *)
addLaunchHistory(t, h, history, ts, fault) ==
  IF fault = "insert" \/ history.tui_id \notin DOMAIN t
    THEN [tuis |-> t, launch_history |-> h, threw |-> TRUE]
    ELSE LET row == [tui_id        |-> history.tui_id,
                     launched_at   |-> ts,
                     exit_code     |-> orNullNum(history.exit_code),
                     duration_ms   |-> orNullNum(history.duration_ms),
                     error_message |-> orNullStr(history.error_message)]
             h2 == Append(h, row)
         IN  IF fault = "update"
               THEN [tuis |-> t, launch_history |-> h2, threw |-> TRUE]
               ELSE [tuis |-> [t EXCEPT ![history.tui_id] =
                                 [@ EXCEPT !.launch_count = @ + 1,
                                           !.last_launched_at = ts]],
                     launch_history |-> h2,
                     threw |-> FALSE]

(* The builtin TUIs the application ships with, by slug. *)
builtinSlugs ==
  <<"fftpeg", "ai-hub", "btop", "lazygit", "htop", "ranger", "ncdu">>

(* The entries of builtin-tuis.json the model carries: the first MaxTuis,  *)
(* each with its install flag.                                             *)
builtinData(installed) ==
  [i \in 1..MaxTuis |-> [slug |-> builtinSlugs[i],
                         command |-> builtinSlugs[i],
                         is_installed |-> installed[i]]]

(* The row INSERT INTO tuis stores for a TUI object without id. *)
newRow(tui) ==
  [slug             |-> tui.slug,
   command          |-> tui.command,
   is_installed     |-> tui.is_installed,
   is_favorite      |-> FALSE,
   launch_count     |-> 0,
   last_launched_at |-> Absent]

(* A registry that holds the builtin TUIs, all installed. *)
StoredTUIs ==
  [id \in 1..MaxTuis |-> newRow(builtinData([i \in 1..MaxTuis |-> TRUE])[id])]

(* No RegistryManager call. *)
NoCall == [op |-> "none", slug |-> NoStr, threw |-> FALSE]

(* null where a TUI object is expected. *)
NoTUI ==
  [id |-> Absent, slug |-> NoStr, command |-> NoStr,
   is_installed |-> FALSE, is_favorite |-> FALSE]

(* The TUI object of a row: its id and the fields the handlers read. *)
rowToTUI(id, row) ==
  [id |-> id, slug |-> row.slug, command |-> row.command,
   is_installed |-> row.is_installed, is_favorite |-> row.is_favorite]

getTUI(t, id) == IF id \in DOMAIN t THEN rowToTUI(id, t[id]) ELSE NoTUI

getTUIBySlug(t, slug) ==
  IF \E id \in DOMAIN t : t[id].slug = slug
    THEN LET id == CHOOSE i \in DOMAIN t : t[i].slug = slug
         IN  rowToTUI(id, t[id])
    ELSE NoTUI

(* getAll(): the ids of all rows. *)
getAll(t) == DOMAIN t

(* A column slug without its UNIQUE constraint. *)
uniqueSlugUnchecked(t, slug, id) == TRUE

(* `slug TEXT UNIQUE NOT NULL`: no row other than row id holds the slug. *)
uniqueSlug(t, slug, id) ==
  \A other \in DOMAIN t \ {id} : t[other].slug # slug

(* INSERT INTO tuis with AUTOINCREMENT: the new id is one more than the    *)
(* largest id ever handed out; the statement fails on a slug that a row    *)
(* holds.                                                                  *)
addTUI(t, seq, tui) ==
  IF uniqueSlug(t, tui.slug, seq + 1)
    THEN [tuis |-> [id \in DOMAIN t \cup {seq + 1} |->
                      IF id = seq + 1 THEN newRow(tui) ELSE t[id]],
          seq |-> seq + 1, threw |-> FALSE]
    ELSE [tuis |-> t, seq |-> seq, threw |-> TRUE]

(* updateTUI(id, updates): every field of updates but id and created_at is *)
(* SET on the row; the statement fails on a slug that another row holds,   *)
(* and changes nothing when there is no field or no row.                   *)
updateTUI(t, id, updates) ==
  LET fields == DOMAIN updates \ {"id", "created_at"}
  IN  IF fields = {} \/ id \notin DOMAIN t
        THEN [tuis |-> t, threw |-> FALSE]
        ELSE IF "slug" \in fields /\ ~uniqueSlug(t, updates.slug, id)
          THEN [tuis |-> t, threw |-> TRUE]
          ELSE [tuis |-> [t EXCEPT ![id] =
                            [f \in DOMAIN t[id] |->
                               IF f \in fields THEN updates[f]
                                               ELSE t[id][f]]],
                threw |-> FALSE]

(* RegistryManager.add: throws when the slug is taken. *)
add(t, seq, tui) ==
  IF getTUIBySlug(t, tui.slug) # NoTUI
    THEN [tuis |-> t, seq |-> seq, threw |-> TRUE]
    ELSE addTUI(t, seq, tui)

(* RegistryManager.toggleFavorite *)
toggleFavorite(t, id) ==
  IF getTUI(t, id) = NoTUI
    THEN t
    ELSE [t EXCEPT ![id] = [@ EXCEPT !.is_favorite = ~@]]

(* RegistryManager.markInstalled *)
markInstalled(t, id) ==
  IF id \in DOMAIN t
    THEN [t EXCEPT ![id] = [@ EXCEPT !.is_installed = TRUE]]
    ELSE t

(* Rows of h other than those of target id, in order. *)
RECURSIVE rowsNotOf(_, _)
rowsNotOf(h, id) ==
  IF h = <<>>
    THEN <<>>
    ELSE IF Head(h).tui_id = id
           THEN rowsNotOf(Tail(h), id)
           ELSE <<Head(h)>> \o rowsNotOf(Tail(h), id)

(* A DELETE that leaves the launch_history rows of the target behind. *)
deleteTUINoCascade(t, h, id) ==
  [tuis |-> [i \in DOMAIN t \ {id} |-> t[i]],
   launch_history |-> h]

(* DELETE FROM tuis WHERE id = ?, with foreign_keys = ON: the rows of      *)
(* launch_history that reference the target go with it (ON DELETE CASCADE) *)
deleteTUI(t, h, id) ==
  [tuis |-> [i \in DOMAIN t \ {id} |-> t[i]],
   launch_history |-> rowsNotOf(h, id)]

(* getRandomTUI(filters): the TUI objects ORDER BY RANDOM() LIMIT 1 may    *)
(* return, null when no row matches.  filters is a record that has the     *)
(* field is_installed or not.                                              *)
getRandomTUI(t, filters) ==
  LET match == IF "is_installed" \in DOMAIN filters
                 THEN {id \in DOMAIN t :
                         t[id].is_installed = filters.is_installed}
                 ELSE DOMAIN t
  IN  IF match = {}
        THEN {NoTUI}
        ELSE {rowToTUI(id, t[id]) : id \in match}

(* RegistryManager.getRandom(installedOnly) *)
getRandom(t, installedOnly) ==
  getRandomTUI(t, [is_installed |-> installedOnly])

-----------------------------------------------------------------------------
(* TUILauncher *)

NoTerminalMessage ==
  "No terminal emulator found. Please install alacritty, kitty, or gnome-terminal."

(* A LaunchResult; pc = "returned" tells that the call has produced it.    *)
NoResult ==
  [success |-> FALSE, exitCode |-> Absent, duration |-> Absent, error |-> NoStr]

(* JavaScript `code || undefined` on the exit code handed to the 'exit'    *)
(* listener (null when the child was killed by a signal).                  *)
orUndefined(code) == IF code = Absent \/ code = 0 THEN Absent ELSE code

(* recordLaunch without its try/catch. *)
recordLaunchNoCatch(t, h, tuiId, result, ts, fault) ==
  LET r == addLaunchHistory(t, h,
             [tui_id        |-> tuiId,
              exit_code     |-> result.exitCode,
              duration_ms   |-> result.duration,
              error_message |-> result.error], ts, fault)
  IN  [tuis |-> r.tuis, launch_history |-> r.launch_history,
       threw |-> r.threw, logged |-> FALSE]

(* recordLaunch(tuiId, result): addLaunchHistory inside try/catch; a       *)
(* failure is written to console.error (logged) and not rethrown.          *)
recordLaunch(t, h, tuiId, result, ts, fault) ==
  LET r == addLaunchHistory(t, h,
             [tui_id        |-> tuiId,
              exit_code     |-> result.exitCode,
              duration_ms   |-> result.duration,
              error_message |-> result.error], ts, fault)
  IN  [tuis |-> r.tuis, launch_history |-> r.launch_history,
       threw |-> FALSE, logged |-> r.threw]

(* The listeners attached ahead of the detached branch. *)
hasListenersAlways(call) == TRUE

(* The 'exit' and 'error' listeners are attached only after the detached   *)
(* branch has returned, that is only when options.waitForExit is set.      *)
hasListeners(call) == call.waitForExit

(* JavaScript truthiness of an optional string, as `options.terminal ||`   *)
(* tests it: undefined, null and "" are falsy.                             *)
truthy(str) == str # NoStr /\ str # ""

(* A launch that detects whatever options.terminal holds. *)
terminalGivenNever(terminal) == FALSE

(* `options.terminal ||`: the option is used if it is truthy. *)
terminalGiven(terminal) == truthy(terminal)

(* The test `!terminal` left out. *)
noTerminalNever(terminal) == FALSE

(* `!terminal` on the resolved terminal. *)
noTerminal(terminal) == ~truthy(terminal)

(* What a thrown value becomes in the catch clause of launch.              *)
catchMessage(thrown) ==
  IF thrown.isError THEN thrown.message ELSE "Unknown error"

(* Inputs of the model *)
TargetIds == 1..MaxTuis                \* tui.id
LaunchCommands == {"htop"}             \* tui.command
LaunchArgs == {<<"-d", "5">>}           \* options.args
OptTerminals == {NoStr, "kitty"}   \* options.terminal
Hosts == {{}, {"kitty"}, {"alacritty", "kitty"}}   \* binaries on the PATH
ProbeFaults == {{}, {"alacritty"}}     \* probes that fail to run
ExitCodes == (0..MaxExit) \cup {Absent}
ErrorMessages == {"spawn ENOENT"}
ThrownValues == {[isError |-> TRUE, message |-> "spawn EACCES"],
                 [isError |-> FALSE, message |-> NoStr]}
SpawnResults == {"started", "failed", "threw"}

NewCall ==
  [pc          |-> "new",      \* new, detecting, pending, returned
   tui_id      |-> 0,
   command     |-> "",
   args        |-> <<>>,
   waitForExit |-> FALSE,
   optTerminal |-> NoStr,
   startTime   |-> 0,
   terminal    |-> NoStr,      \* the terminal launch resolved
   probes      |-> 0,          \* `which` subprocesses run by this call
   argv        |-> <<>>,       \* what was handed to spawn
   spawn       |-> "none",     \* none, started, failed (asynchronously), threw
   events      |-> <<>>,       \* events the child has emitted, in order
   result      |-> NoResult,   \* the LaunchResult the promise resolved to
   records     |-> 0,          \* recordLaunch invocations
   rows        |-> 0,          \* launch_history rows this call inserted
   incs        |-> 0,          \* launch_count increments this call applied
   logged      |-> 0,          \* console.error('Failed to record launch')
   unhandled   |-> FALSE]      \* an 'error' event found no listener

(* The call record after one recordLaunch that turned the tables into r.   *)
noteRecord(call, r) ==
  [call EXCEPT !.records = @ + 1,
               !.rows = @ + (Len(r.launch_history) - Len(launch_history)),
               !.incs = @ + (IF r.tuis # tuis THEN 1 ELSE 0),
               !.logged = @ + (IF r.logged THEN 1 ELSE 0)]

(* launch from the point where the terminal is known to the first return   *)
(* or to the creation of the promise.  d is the time that passes between   *)
(* the two Date.now() of the detached branch.                              *)
afterTerminal(call, terminal, spawnRes, thrown, fault, d) ==
  IF noTerminal(terminal)
    THEN [call |-> [call EXCEPT !.pc = "returned",
                                !.result = [NoResult EXCEPT
                                             !.error = NoTerminalMessage]],
          tuis |-> tuis, launch_history |-> launch_history, now |-> now]
    ELSE
      LET argv == buildLaunchCommand(terminal, call.command, call.args)
          c1 == [call EXCEPT !.terminal = terminal, !.argv = argv,
                             !.spawn = spawnRes]
          caught(c, msg, ts) ==
            [c EXCEPT !.pc = "returned",
                      !.result = [NoResult EXCEPT
                                   !.error = msg,
                                   !.duration = ts - call.startTime]]
      IN
      IF spawnRes = "threw"
        THEN [call |-> caught(c1, catchMessage(thrown), now),
              tuis |-> tuis, launch_history |-> launch_history, now |-> now]
      ELSE IF ~call.waitForExit
        THEN LET r == recordLaunch(tuis, launch_history, call.tui_id,
                        [NoResult EXCEPT !.success = TRUE,
                                         !.duration = now - call.startTime],
                        now, fault)
                 c2 == noteRecord(c1, r)
             IN  [call |-> IF r.threw
                             THEN caught(c2, "store error", now + d)
                             ELSE [c2 EXCEPT
                                    !.pc = "returned",
                                    !.result = [NoResult EXCEPT
                                      !.success = TRUE,
                                      !.duration = (now + d) - call.startTime]],
                  tuis |-> r.tuis, launch_history |-> r.launch_history,
                  now |-> now + d]
        ELSE [call |-> [c1 EXCEPT !.pc = "pending"],
              tuis |-> tuis, launch_history |-> launch_history, now |-> now]

Apply(c, s) ==
  /\ calls' = [calls EXCEPT ![c] = s.call]
  /\ tuis' = s.tuis
  /\ launch_history' = s.launch_history
  /\ now' = s.now

(* launch(tui, options) up to its first await: with options.terminal set   *)
(* it runs on to the return or to the promise, else it awaits detection.   *)
launch(c, id, cmd, args, wait, term) ==
  LET call == [calls[c] EXCEPT !.tui_id = id, !.command = cmd,
                                !.args = args, !.waitForExit = wait,
                                !.optTerminal = term,
                                !.startTime = now]
  IN  IF terminalGiven(term)
        THEN \E spawnRes \in SpawnResults, thrown \in ThrownValues,
                fault \in StoreFaults, d \in 0..1 :
               /\ now + d <= MaxTime
               /\ Apply(c, afterTerminal(call, term, spawnRes, thrown,
                                         fault, d))
        ELSE /\ calls' = [calls EXCEPT ![c] = [call EXCEPT
                                                !.pc = "detecting"]]
             /\ UNCHANGED <<tuis, launch_history, now>>

(* A caller of the launcher starts a launch. *)
LaunchCall(c) ==
  /\ proc = "running"
  /\ calls[c].pc = "new"
  /\ c > 1 => calls[c - 1].pc # "new"
  /\ \E id \in TargetIds, cmd \in LaunchCommands, args \in LaunchArgs,
        wait \in BOOLEAN, term \in OptTerminals :
       launch(c, id, cmd, args, wait, term)
  /\ UNCHANGED <<proc, detect, build, sqlite_sequence, registryCall, ui>>

(* detectTerminal() has settled: launch goes on from the await, on one of  *)
(* the given hosts, with the given outcomes of spawn and of the store and  *)
(* the given times between the two Date.now() of the detached branch.      *)
detectSettled(c, hosts, probeFaults, spawnResults, storeFaults, delays) ==
  /\ proc = "running"
  /\ calls[c].pc = "detecting"
  /\ \E present \in hosts, failing \in probeFaults :
       /\ LET dt == detectTerminal(present, failing)
              call == [calls[c] EXCEPT !.probes = dt.probes]
          IN  IF dt.threw
                THEN Apply(c, [call |-> [call EXCEPT
                                 !.pc = "returned",
                                 !.result = [NoResult EXCEPT
                                   !.error = "probe error",
                                   !.duration = now - call.startTime]],
                               tuis |-> tuis,
                               launch_history |-> launch_history,
                               now |-> now])
                ELSE \E spawnRes \in spawnResults, thrown \in ThrownValues,
                        fault \in storeFaults, d \in delays :
                       /\ now + d <= MaxTime
                       /\ Apply(c, afterTerminal(call, dt.result, spawnRes,
                                                 thrown, fault, d))
  /\ UNCHANGED <<proc, detect, build>>

(* The detection of a call of some caller of the launcher settles. *)
DetectDone(c) ==
  /\ detectSettled(c, Hosts, ProbeFaults, SpawnResults, StoreFaults, 0..1)
  /\ UNCHANGED <<sqlite_sequence, registryCall, ui>>

(* An 'exit' listener that never reports success. *)
exitSuccessNever(code) == FALSE

(* `success: code === 0` of the 'exit' listener. *)
exitSuccess(code) == code = 0

(* A resolve that never settles the promise. *)
resolveNever(call, result) == call

(* resolve(result) of the promise of an attached call: only the first     *)
(* resolve settles it.                                                     *)
resolve(call, result) ==
  IF call.pc = "pending"
    THEN [call EXCEPT !.pc = "returned", !.result = result]
    ELSE call

(* A listener of an attached call: record the result, then resolve.  An    *)
(* exception leaving the listener is an uncaught exception of the process. *)
Listener(c, call, result, fault) ==
  LET r == recordLaunch(tuis, launch_history, call.tui_id, result, now, fault)
      c2 == noteRecord(call, r)
  IN  /\ tuis' = r.tuis
      /\ launch_history' = r.launch_history
      /\ IF r.threw
           THEN /\ calls' = [calls EXCEPT ![c] = c2]
                /\ proc' = "crashed"
           ELSE /\ calls' = [calls EXCEPT ![c] = resolve(c2, result)]
                /\ proc' = proc

(* The child of call c emits 'exit' with its exit code (null on a signal). *)
(* A child that could not be started emits 'exit', if at all, after its    *)
(* 'error'.                                                                *)
ChildExit(c) ==
  /\ proc = "running"
  /\ calls[c].spawn \in {"started", "failed"}
  /\ \A i \in DOMAIN calls[c].events : calls[c].events[i].kind # "exit"
  /\ calls[c].spawn = "failed" => calls[c].events # <<>>
  /\ \E code \in ExitCodes, fault \in StoreFaults :
       LET call == [calls[c] EXCEPT !.events =
                      Append(@, [kind |-> "exit", code |-> code,
                                 message |-> NoStr])]
       IN  IF hasListeners(call)
             THEN Listener(c, call,
                    [NoResult EXCEPT !.success = exitSuccess(code),
                                     !.exitCode = orUndefined(code),
                                     !.duration = now - call.startTime],
                    fault)
             ELSE /\ calls' = [calls EXCEPT ![c] = call]
                  /\ UNCHANGED <<tuis, launch_history, proc>>
  /\ UNCHANGED <<now, detect, build, sqlite_sequence, registryCall, ui>>

(* The child of call c, which could not be started, emits 'error'.  With   *)
(* no listener the event is thrown and ends the process.                   *)
ChildError(c) ==
  /\ proc = "running"
  /\ calls[c].spawn = "failed"
  /\ calls[c].events = <<>>
  /\ \E msg \in ErrorMessages, fault \in StoreFaults :
       LET call == [calls[c] EXCEPT !.events =
                      Append(@, [kind |-> "error", code |-> Absent,
                                 message |-> msg])]
       IN  IF hasListeners(call)
             THEN Listener(c, call,
                    [NoResult EXCEPT !.error = msg,
                                     !.duration = now - call.startTime],
                    fault)
             ELSE /\ calls' = [calls EXCEPT ![c] = [call EXCEPT
                                                     !.unhandled = TRUE]]
                  /\ proc' = "crashed"
                  /\ UNCHANGED <<tuis, launch_history>>
  /\ UNCHANGED <<now, detect, build, sqlite_sequence, registryCall, ui>>

(* Time passes. *)
Tick ==
  /\ proc = "running"
  /\ now < MaxTime
  /\ now' = now + 1
  /\ UNCHANGED <<tuis, launch_history, calls, proc, detect, build,
                 sqlite_sequence, registryCall, ui>>

(* The tabs of App, in order; the hotkey of the n-th is the digit n. *)
tabs ==
  <<"installed", "discover", "categories", "favorites", "showcase",
    "settings", "search">>

(* The user interface as the store and the useState calls set it up. *)
InitUI ==
  /\ activeTab = "showcase"
  /\ selectedTabIndex = 4
  /\ selectedButton = 0
  /\ showcaseTUI = NoTUI
  /\ key = NoStr

IdleDetect == [present |-> {}, failing |-> {}, done |-> FALSE,
               result |-> NoStr, probes |-> 0, threw |-> FALSE]
IdleBuild == [terminal |-> "", command |-> "", args |-> <<>>,
              done |-> FALSE, argv |-> <<>>]

Init ==
  /\ tuis = StoredTUIs
  /\ sqlite_sequence = MaxTuis
  /\ registryCall = NoCall
  /\ InitUI
  /\ launch_history = <<>>
  /\ calls = [c \in 1..MaxCalls |-> NewCall]
  /\ now = 0
  /\ proc = "running"
  /\ detect = IdleDetect
  /\ build = IdleBuild

Next ==
  \/ \E c \in 1..MaxCalls : LaunchCall(c)
  \/ \E c \in 1..MaxCalls : DetectDone(c)
  \/ \E c \in 1..MaxCalls : ChildExit(c)
  \/ \E c \in 1..MaxCalls : ChildError(c)
  \/ Tick

Spec == Init /\ [][Next]_vars

-----------------------------------------------------------------------------
(* detectTerminal() on its own: every host and every set of failing probes *)

FailingSets ==
  { f \in SUBSET Range(terminals) : Cardinality(f) <= MaxFailing }

InitDetect ==
  /\ tuis = StoredTUIs
  /\ sqlite_sequence = MaxTuis
  /\ registryCall = NoCall
  /\ InitUI
  /\ launch_history = <<>>
  /\ calls = [c \in 1..MaxCalls |-> NewCall]
  /\ now = 0
  /\ proc = "running"
  /\ build = IdleBuild
  /\ \E present \in SUBSET Range(terminals), failing \in FailingSets :
       detect = [IdleDetect EXCEPT !.present = present, !.failing = failing]

DetectCall ==
  /\ ~detect.done
  /\ LET dt == detectTerminal(detect.present, detect.failing)
     IN  detect' = [detect EXCEPT !.done = TRUE, !.result = dt.result,
                                  !.probes = dt.probes, !.threw = dt.threw]
  /\ UNCHANGED <<tuis, launch_history, calls, now, proc, build,
                 sqlite_sequence, registryCall, ui>>

SpecDetect == InitDetect /\ [][DetectCall]_vars

(* buildLaunchCommand() on its own *)

BuildTerminals == Range(terminals) \cup {"foot", "auto", ""}
BuildCommands == {"htop", "lazygit"}
ArgWords == {"--arg1", "--arg2", "a b"}
ArgLists == UNION { [1..k -> ArgWords] : k \in 0..MaxArgs }

InitBuild ==
  /\ tuis = StoredTUIs
  /\ sqlite_sequence = MaxTuis
  /\ registryCall = NoCall
  /\ InitUI
  /\ launch_history = <<>>
  /\ calls = [c \in 1..MaxCalls |-> NewCall]
  /\ now = 0
  /\ proc = "running"
  /\ detect = IdleDetect
  /\ \E terminal \in BuildTerminals, command \in BuildCommands,
        args \in ArgLists :
       build = [IdleBuild EXCEPT !.terminal = terminal, !.command = command,
                                 !.args = args]

BuildCall ==
  /\ ~build.done
  /\ build' = [build EXCEPT !.done = TRUE,
                  !.argv = buildLaunchCommand(build.terminal, build.command,
                                              build.args)]
  /\ UNCHANGED <<tuis, launch_history, calls, now, proc, detect,
                 sqlite_sequence, registryCall, ui>>

SpecBuild == InitBuild /\ [][BuildCall]_vars

(* launch on its own, one call, with every kind of options.terminal: none, *)
(* the empty string, names buildLaunchCommand knows and names it does not. *)

TerminalOptions == {NoStr, "", "auto", "kitty", "xterm", "foot"}

LaunchWithTerminal(c) ==
  /\ proc = "running"
  /\ calls[c].pc = "new"
  /\ \E id \in TargetIds, cmd \in LaunchCommands, args \in LaunchArgs,
        wait \in BOOLEAN, term \in TerminalOptions :
       launch(c, id, cmd, args, wait, term)
  /\ UNCHANGED <<proc, detect, build, sqlite_sequence, registryCall, ui>>

NextTerminal ==
  \/ LaunchWithTerminal(1)
  \/ DetectDone(1)
  \/ ChildExit(1)
  \/ ChildError(1)
  \/ Tick

SpecTerminal == Init /\ [][NextTerminal]_vars

-----------------------------------------------------------------------------
(* The application: start-up, the keyboard handlers of App and of          *)
(* ShowcaseTab, and the registry operations                                *)

(* The key names the terminal may deliver. *)
Keys ==
  {"0", "1", "2", "3", "4", "5", "6", "7", "8", "left", "right", "h", "l",
   "q", "Q", "return", " ", "s", "S", "f", "F"}

(* The keys the Showcase tab acts on that keep it rendered, and q. *)
ShowcaseKeys == {"return", " ", "s", "f", "q"}

digits == <<"0", "1", "2", "3", "4", "5", "6", "7", "8", "9">>

(* A parseInt that finds no number in any key name. *)
parseIntNaN(str) == Absent

(* parseInt on a key name: the number of a digit key, NaN (Absent, which   *)
(* fails every comparison the handler makes) for the other names.          *)
parseInt(str) ==
  IF \E d \in 1..Len(digits) : digits[d] = str
    THEN (CHOOSE d \in 1..Len(digits) : digits[d] = str) - 1
    ELSE Absent

(* App handler: the tab index a key selects, Absent for a key that selects *)
(* none.                                                                   *)
appTabIndex(index, k) ==
  LET num == parseInt(k)
  IN  IF num >= 1 /\ num <= 7
        THEN num - 1
        ELSE IF k \in {"left", "h"}
               THEN (index - 1 + Len(tabs)) % Len(tabs)
               ELSE IF k \in {"right", "l"}
                      THEN (index + 1) % Len(tabs)
                      ELSE Absent

(* ShowcaseTab handler: the button after a key. *)
moveButton(button, k) ==
  IF k \in {"left", "h"}
    THEN IF button - 1 > 0 THEN button - 1 ELSE 0
    ELSE IF k \in {"right", "l"}
           THEN IF button + 1 < 2 THEN button + 1 ELSE 2
           ELSE button

(* loadRandomTUI(): what the tab may show afterwards. *)
loadRandomTUI(t, shown, button) ==
  { IF r # NoTUI
      THEN [showcaseTUI |-> r, selectedButton |-> 0]
      ELSE [showcaseTUI |-> shown, selectedButton |-> button] :
    r \in getRandom(t, FALSE) }

(* The favorite toggle of ShowcaseTab on the TUI it shows. *)
favorite(t, shown) ==
  IF shown.id \in {Absent, 0}
    THEN [tuis |-> t, showcaseTUI |-> shown]
    ELSE LET t2 == toggleFavorite(t, shown.id)
             updated == getTUI(t2, shown.id)
         IN  [tuis |-> t2,
              showcaseTUI |-> IF updated # NoTUI THEN updated ELSE shown]

(* A Launch button that launches whatever is shown. *)
canLaunchAlways(tui) == TRUE

(* The test of the Launch case: installed, with a command and an id. *)
canLaunch(tui) ==
  /\ tui.is_installed
  /\ truthy(tui.command)
  /\ tui.id \notin {Absent, 0}

(* handleButtonAction(buttonIndex) up to its first await. *)
handleButtonAction(buttonIndex) ==
  IF showcaseTUI = NoTUI
    THEN UNCHANGED <<tuis, launch_history, calls, now, proc,
                     selectedButton, showcaseTUI>>
    ELSE IF buttonIndex = 0
      THEN IF canLaunch(showcaseTUI)
             THEN /\ \E c \in 1..MaxCalls :
                       /\ calls[c].pc = "new"
                       /\ c > 1 => calls[c - 1].pc # "new"
                       /\ launch(c, showcaseTUI.id, showcaseTUI.command,
                                 <<>>, FALSE, NoStr)
                  /\ UNCHANGED <<proc, selectedButton, showcaseTUI>>
             ELSE UNCHANGED <<tuis, launch_history, calls, now, proc,
                              selectedButton, showcaseTUI>>
      ELSE IF buttonIndex = 1
        THEN /\ \E s \in loadRandomTUI(tuis, showcaseTUI, selectedButton) :
                  /\ showcaseTUI' = s.showcaseTUI
                  /\ selectedButton' = s.selectedButton
             /\ UNCHANGED <<tuis, launch_history, calls, now, proc>>
        ELSE /\ tuis' = favorite(tuis, showcaseTUI).tuis
             /\ showcaseTUI' = favorite(tuis, showcaseTUI).showcaseTUI
             /\ UNCHANGED <<launch_history, calls, now, proc, selectedButton>>

(* One key event: the App handler runs, and the ShowcaseTab handler too if *)
(* the Showcase tab is rendered.  A tab that is left loses its state; the  *)
(* Showcase tab that is entered starts from button 0 and loads a TUI if    *)
(* the store has none.                                                     *)
KeyPress(k) ==
  /\ proc = "running"
  /\ key' = k
  /\ registryCall' = NoCall
  /\ LET index == appTabIndex(selectedTabIndex, k)
         mounted == activeTab = "showcase"
     IN  IF index # Absent
           THEN /\ selectedTabIndex' = index
                /\ activeTab' = tabs[index + 1]
                /\ IF tabs[index + 1] # "showcase"
                     THEN /\ selectedButton' = 0
                          /\ UNCHANGED showcaseTUI
                     ELSE IF mounted
                       THEN /\ selectedButton' = moveButton(selectedButton, k)
                            /\ UNCHANGED showcaseTUI
                       ELSE IF showcaseTUI = NoTUI
                         THEN \E s \in loadRandomTUI(tuis, showcaseTUI, 0) :
                                /\ showcaseTUI' = s.showcaseTUI
                                /\ selectedButton' = s.selectedButton
                         ELSE /\ selectedButton' = 0
                              /\ UNCHANGED showcaseTUI
                /\ UNCHANGED <<tuis, launch_history, calls, now, proc>>
           ELSE /\ UNCHANGED <<activeTab, selectedTabIndex>>
                /\ IF k = "q"
                     THEN /\ proc' = "exited"
                          /\ UNCHANGED <<tuis, launch_history, calls, now,
                                         selectedButton, showcaseTUI>>
                     ELSE IF mounted /\ k \in {"return", " "}
                       THEN handleButtonAction(selectedButton)
                       ELSE IF mounted /\ k = "s"
                         THEN /\ \E s \in loadRandomTUI(tuis, showcaseTUI,
                                                        selectedButton) :
                                   /\ showcaseTUI' = s.showcaseTUI
                                   /\ selectedButton' = s.selectedButton
                              /\ UNCHANGED <<tuis, launch_history, calls,
                                             now, proc>>
                         ELSE IF mounted /\ k = "f"
                           THEN /\ tuis' = favorite(tuis, showcaseTUI).tuis
                                /\ showcaseTUI' =
                                     favorite(tuis, showcaseTUI).showcaseTUI
                                /\ UNCHANGED <<launch_history, calls, now,
                                               proc, selectedButton>>
                           ELSE UNCHANGED <<tuis, launch_history, calls, now,
                                            proc, selectedButton,
                                            showcaseTUI>>
  /\ UNCHANGED <<detect, build, sqlite_sequence>>

(* The hosts, spawn outcomes and store outcomes of the application runs. *)
AppHosts == {{}, {"kitty"}}
AppSpawnResults == {"started", "threw"}
AppStoreFaults == {"none"}

(* The launch a Showcase key started resolves: handleButtonAction goes on  *)
(* from its await with loadRandomTUI().                                    *)
ShowcaseLaunchDone(c) ==
  /\ detectSettled(c, AppHosts, {{}}, AppSpawnResults, AppStoreFaults, {0})
  /\ \E s \in loadRandomTUI(tuis', showcaseTUI, selectedButton) :
       /\ showcaseTUI' = s.showcaseTUI
       /\ selectedButton' = IF activeTab = "showcase"
                              THEN s.selectedButton
                              ELSE selectedButton
  /\ key' = NoStr
  /\ registryCall' = NoCall
  /\ UNCHANGED <<sqlite_sequence, activeTab, selectedTabIndex>>

(* A start that seeds whatever the registry holds. *)
needsSeedAlways(existing) == TRUE

(* `existingTUIs.length === 0` of initializeApp. *)
needsSeed(existing) == existing = {}

(* The seeding loop of initializeApp from entry i on: registry.add on each *)
(* entry, a throw caught and logged.                                       *)
RECURSIVE seedFrom(_, _, _, _)
seedFrom(i, data, t, seq) ==
  IF i > Len(data)
    THEN [tuis |-> t, seq |-> seq]
    ELSE LET r == add(t, seq, data[i])
         IN  seedFrom(i + 1, data, r.tuis, r.seq)

(* initializeApp and the first render, in a new process: the registry is   *)
(* seeded if it is empty, the store gets a random TUI, the Showcase tab is *)
(* rendered.  Launches of an earlier process are lost with it.             *)
Start ==
  /\ proc # "running"
  /\ sqlite_sequence + MaxTuis <= MaxSeeds * MaxTuis
  /\ \E installed \in [1..MaxTuis -> BOOLEAN] :
       LET seeded == IF needsSeed(getAll(tuis))
                       THEN seedFrom(1, builtinData(installed), tuis,
                                     sqlite_sequence)
                       ELSE [tuis |-> tuis, seq |-> sqlite_sequence]
       IN  /\ tuis' = seeded.tuis
           /\ sqlite_sequence' = seeded.seq
           /\ showcaseTUI' \in getRandom(seeded.tuis, FALSE)
  /\ proc' = "running"
  /\ activeTab' = "showcase"
  /\ selectedTabIndex' = 4
  /\ selectedButton' = 0
  /\ key' = NoStr
  /\ registryCall' = NoCall
  /\ calls' = [c \in 1..MaxCalls |->
                 IF calls[c].pc \in {"detecting", "pending"}
                   THEN [calls[c] EXCEPT !.pc = "lost"]
                   ELSE calls[c]]
  /\ UNCHANGED <<launch_history, now, detect, build>>

(* RegistryManager.delete(id) *)
Delete(id) ==
  /\ id \in DOMAIN tuis
  /\ tuis' = deleteTUI(tuis, launch_history, id).tuis
  /\ launch_history' = deleteTUI(tuis, launch_history, id).launch_history
  /\ registryCall' = [op |-> "delete", slug |-> NoStr, threw |-> FALSE]
  /\ key' = NoStr
  /\ UNCHANGED <<calls, now, proc, detect, build, sqlite_sequence,
                 activeTab, selectedTabIndex, selectedButton, showcaseTUI>>

(* RegistryManager.markInstalled(id) *)
MarkInstalled(id) ==
  /\ id \in DOMAIN tuis
  /\ ~tuis[id].is_installed
  /\ tuis' = markInstalled(tuis, id)
  /\ registryCall' = [op |-> "update", slug |-> NoStr, threw |-> FALSE]
  /\ key' = NoStr
  /\ UNCHANGED <<launch_history, calls, now, proc, detect, build,
                 sqlite_sequence, activeTab, selectedTabIndex,
                 selectedButton, showcaseTUI>>

(* RegistryManager.update(id, updates) *)
Update(id, updates) ==
  /\ id \in DOMAIN tuis
  /\ tuis' = updateTUI(tuis, id, updates).tuis
  /\ registryCall' =
       [op |-> "update",
        slug |-> IF "slug" \in DOMAIN updates THEN updates.slug ELSE NoStr,
        threw |-> updateTUI(tuis, id, updates).threw]
  /\ key' = NoStr
  /\ UNCHANGED <<launch_history, calls, now, proc, detect, build,
                 sqlite_sequence, activeTab, selectedTabIndex,
                 selectedButton, showcaseTUI>>

(* RegistryManager.add(tui) *)
Add(tui) ==
  /\ sqlite_sequence < MaxSeeds * MaxTuis
  /\ tuis' = add(tuis, sqlite_sequence, tui).tuis
  /\ sqlite_sequence' = add(tuis, sqlite_sequence, tui).seq
  /\ registryCall' = [op |-> "add", slug |-> tui.slug,
                      threw |-> add(tuis, sqlite_sequence, tui).threw]
  /\ key' = NoStr
  /\ UNCHANGED <<launch_history, calls, now, proc, detect, build,
                 activeTab, selectedTabIndex, selectedButton, showcaseTUI>>

(* A fresh database and no process. *)
InitApp ==
  /\ tuis = <<>>
  /\ sqlite_sequence = 0
  /\ registryCall = NoCall
  /\ launch_history = <<>>
  /\ calls = [c \in 1..MaxCalls |-> NewCall]
  /\ now = 0
  /\ proc = "stopped"
  /\ detect = IdleDetect
  /\ build = IdleBuild
  /\ InitUI

(* The application as it is used from the keyboard, on a registry whose    *)
(* TUIs other operations may delete.                                       *)
NextApp ==
  \/ Start
  \/ \E k \in Keys : KeyPress(k)
  \/ \E id \in 1..(MaxSeeds * MaxTuis) : Delete(id)

SpecApp == InitApp /\ [][NextApp]_vars

(* The Showcase tab with the launcher, on a registry whose TUIs other      *)
(* operations may mark installed and delete.                               *)
NextShowcase ==
  \/ Start
  \/ \E k \in ShowcaseKeys : KeyPress(k)
  \/ \E c \in 1..MaxCalls : ShowcaseLaunchDone(c)
  \/ \E id \in 1..(MaxSeeds * MaxTuis) : Delete(id)
  \/ \E id \in 1..(MaxSeeds * MaxTuis) : MarkInstalled(id)
  \/ \E id \in 1..(MaxSeeds * MaxTuis) : Update(id, [command |-> ""])

SpecShowcase == InitApp /\ [][NextShowcase]_vars

(* The registry on its own: add, update and delete from a fresh database. *)
AddSlugs == {"btop", "htop", "ncdu"}
AddInputs ==
  {[slug |-> slug, command |-> slug, is_installed |-> FALSE] :
     slug \in AddSlugs}
Updates ==
  {[slug |-> slug] : slug \in AddSlugs} \cup {[is_favorite |-> TRUE]}

NextRegistry ==
  \/ \E tui \in AddInputs : Add(tui)
  \/ \E id \in 1..(MaxSeeds * MaxTuis), updates \in Updates :
       Update(id, updates)
  \/ \E id \in 1..(MaxSeeds * MaxTuis) : Delete(id)

SpecRegistry == InitApp /\ [][NextRegistry]_vars

TypeOK ==
  /\ now \in 0..MaxTime
  /\ proc \in {"stopped", "running", "exited", "crashed"}
  /\ \A c \in 1..MaxCalls :
       calls[c].pc \in {"new", "detecting", "pending", "returned", "lost"}
  /\ DOMAIN tuis \subseteq 1..sqlite_sequence
  /\ selectedTabIndex \in 0..6
  /\ selectedButton \in 0..2

-----------------------------------------------------------------------------
(* Properties of launch and of the store (checked under Spec)              *)

CallIds == 1..MaxCalls

Returned(c) == calls[c].pc = "returned"

(* A recordLaunch of call c did not get both of its effects into the       *)
(* store.                                                                  *)
RecordFailed(c) ==
  calls[c].records > calls[c].rows \/ calls[c].records > calls[c].incs

(* C1: every launch call that has returned, on whichever path, has         *)
(* appended exactly one launch_history row and incremented launch_count    *)
(* exactly once (stated for the calls during which the store did not       *)
(* fail).                                                                  *)
C1_ExactlyOneRecord ==
  \A c \in CallIds :
    (Returned(c) /\ ~RecordFailed(c)) =>
      /\ calls[c].rows = 1
      /\ calls[c].incs = 1

(* C2: when the emulator process cannot be started, by a synchronous throw *)
(* or by an asynchronous 'error' event, in attached and detached mode      *)
(* alike, no error event goes unhandled and the outcome handed to the      *)
(* caller has success = false.                                             *)
C2_SpawnFailureContained ==
  \A c \in CallIds :
    calls[c].spawn \in {"threw", "failed"} =>
      /\ ~calls[c].unhandled
      /\ Returned(c) => ~calls[c].result.success

(* C3: with no terminal in the options and a detection that finds none of  *)
(* its candidates, launch returns success = false with a non-empty error   *)
(* string and spawns no emulator process.                                  *)
C3_NoTerminal ==
  \A c \in CallIds :
    (/\ calls[c].pc \notin {"new", "detecting"}
     /\ ~truthy(calls[c].optTerminal)
     /\ calls[c].probes = Len(terminals)
     /\ calls[c].terminal = NoStr) =>
      /\ Returned(c)
      /\ ~calls[c].result.success
      /\ truthy(calls[c].result.error)
      /\ calls[c].spawn = "none"
      /\ calls[c].argv = <<>>
      /\ calls[c].events = <<>>

C3_Witness ==
  \E c \in CallIds :
    /\ Returned(c)
    /\ calls[c].optTerminal = NoStr
    /\ calls[c].probes = Len(terminals)
    /\ calls[c].terminal = NoStr
    /\ calls[c].result.error = NoTerminalMessage

(* C4: an attached launch whose child exits with code 0 resolves to        *)
(* success = true and exitCode = 0; one whose child exits with a non-zero  *)
(* code n resolves to success = false, exitCode = n and no error string.   *)
C4_AttachedExit ==
  \A c \in CallIds :
    (/\ calls[c].waitForExit
     /\ Returned(c)
     /\ calls[c].events # <<>>
     /\ calls[c].events[1].kind = "exit"
     /\ calls[c].events[1].code # Absent) =>
      LET code == calls[c].events[1].code
          res == calls[c].result
      IN  /\ code = 0 => (res.success /\ res.exitCode = 0)
          /\ code # 0 => (/\ ~res.success
                          /\ res.exitCode = code
                          /\ res.error = NoStr)

(* The call is detached and its spawn returned a child. *)
DetachedSpawned(c) ==
  /\ ~calls[c].waitForExit
  /\ calls[c].spawn \in {"started", "failed"}

(* C5: a detached launch whose spawn gave a child has resolved, before any *)
(* event of the child, to success = true without exitCode; and no later    *)
(* step, an 'exit' or 'error' of the child included, changes the outcome   *)
(* or what the call has recorded, and an event of that child changes no    *)
(* table.                                                                  *)
C5_Detached ==
  /\ [](\A c \in CallIds :
          DetachedSpawned(c) =>
            /\ Returned(c)
            /\ calls[c].result.success
            /\ calls[c].result.exitCode = Absent
            /\ calls[c].result.error = NoStr
            /\ calls[c].records = 1)
  /\ [][\A c \in CallIds :
          DetachedSpawned(c) =>
            /\ calls'[c].pc = calls[c].pc
            /\ calls'[c].result = calls[c].result
            /\ calls'[c].rows = calls[c].rows
            /\ calls'[c].incs = calls[c].incs
            /\ calls'[c].events # calls[c].events =>
                 (launch_history' = launch_history /\ tuis' = tuis)]_vars

(* The child of a detached call that had returned has exited. *)
C5_Witness ==
  \E c \in CallIds :
    /\ DetachedSpawned(c)
    /\ Returned(c)
    /\ calls[c].events # <<>>
    /\ calls[c].events[1].kind = "exit"
    /\ calls[c].events[1].code = 1

(* C6: a record operation on an existing target that runs to its end, for  *)
(* an outcome with success true or false, raises that target's             *)
(* launch_count by exactly 1, sets its last_launched_at to the time of the *)
(* operation, and leaves the launch_count of every other target as it was. *)
C6_CountIncrement ==
  [][\A c \in CallIds :
       (/\ calls'[c].records = calls[c].records + 1
        /\ calls'[c].logged = calls[c].logged
        /\ calls'[c].tui_id \in DOMAIN tuis) =>
         LET id == calls'[c].tui_id
         IN  /\ tuis'[id].launch_count = tuis[id].launch_count + 1
             /\ tuis'[id].last_launched_at = now
             /\ \A other \in DOMAIN tuis \ {id} :
                  /\ other \in DOMAIN tuis'
                  /\ tuis'[other].launch_count = tuis[other].launch_count]_vars

(* An outcome with success = false was recorded for target 1 and one with  *)
(* success = true for target 2.                                            *)
C6_Witness ==
  \E c, d \in CallIds :
    /\ Returned(c) /\ ~calls[c].result.success
    /\ calls[c].tui_id = 1 /\ calls[c].records = 1 /\ calls[c].incs = 1
    /\ Returned(d) /\ calls[d].result.success
    /\ calls[d].tui_id = 2 /\ calls[d].records = 1 /\ calls[d].incs = 1
    /\ tuis[1].launch_count = 1
    /\ tuis[2].launch_count = 1

HistoryRowsOf(id) ==
  { i \in DOMAIN launch_history : launch_history[i].tui_id = id }

(* C7: in every reachable state of the store, also after a failure in the  *)
(* middle of addLaunchHistory, each target has as many launch_history rows *)
(* as increments of its launch_count.                                      *)
C7_RowsEqualCount ==
  \A id \in DOMAIN tuis :
    Cardinality(HistoryRowsOf(id)) = tuis[id].launch_count

(* What decides the outcome of a call: its mode, what spawn did and the    *)
(* first event of its child.                                               *)
SamePath(c, d) ==
  /\ calls[c].waitForExit = calls[d].waitForExit
  /\ calls[c].spawn = calls[d].spawn
  /\ noTerminal(calls[c].terminal) = noTerminal(calls[d].terminal)
  /\ calls[c].waitForExit =>
       /\ calls[c].events # <<>> /\ calls[d].events # <<>>
       /\ calls[c].events[1] = calls[d].events[1]

(* C8: when the store fails during recordLaunch the failure is swallowed:  *)
(* the process goes on, the call returns, and its outcome has the success, *)
(* exitCode and error of a call on the same path whose recording           *)
(* succeeded.                                                              *)
C8_RecordFailureSwallowed ==
  /\ \A c \in CallIds :
       RecordFailed(c) =>
         /\ Returned(c)
         /\ proc = "crashed" => \E d \in CallIds : calls[d].unhandled
  /\ \A c, d \in CallIds :
       (/\ Returned(c) /\ Returned(d)
        /\ RecordFailed(c) /\ ~RecordFailed(d)
        /\ SamePath(c, d)) =>
         /\ calls[c].result.success = calls[d].result.success
         /\ calls[c].result.exitCode = calls[d].result.exitCode
         /\ calls[c].result.error = calls[d].result.error

(* Two attached calls whose children exited with code 1, the store failing *)
(* for one of them only.                                                   *)
C8_Witness ==
  \E c, d \in CallIds :
    /\ Returned(c) /\ Returned(d)
    /\ RecordFailed(c) /\ calls[c].logged = 1
    /\ ~RecordFailed(d) /\ calls[d].records = 1
    /\ calls[c].waitForExit
    /\ SamePath(c, d)
    /\ calls[c].result.exitCode = 1

(* The call is attached and its spawn returned a child. *)
AttachedSpawned(c) ==
  /\ calls[c].waitForExit
  /\ calls[c].spawn \in {"started", "failed"}

(* C11: an attached launch has no outcome before its child has emitted     *)
(* 'exit' or 'error'; the step that resolves it is such an event of its    *)
(* own child; and once the child has emitted one, the launch has resolved. *)
C11_AttachedResolution ==
  /\ [](\A c \in CallIds :
          AttachedSpawned(c) =>
            /\ calls[c].pc \in {"pending", "returned"}
            /\ Returned(c) <=> calls[c].events # <<>>)
  /\ [][\A c \in CallIds :
          (calls[c].pc = "pending" /\ calls'[c].pc # "pending") =>
            /\ calls'[c].pc = "returned"
            /\ Len(calls'[c].events) = Len(calls[c].events) + 1
            /\ calls'[c].events[Len(calls'[c].events)].kind
                 \in {"exit", "error"}]_vars

(* An attached call resolved by the 'error' event of its child. *)
C11_Witness ==
  \E c \in CallIds :
    /\ AttachedSpawned(c)
    /\ Returned(c)
    /\ calls[c].events[1].kind = "error"
    /\ calls[c].result.error = "spawn ENOENT"

(* C19: the launch_history row of a recorded launch carries the values of  *)
(* the outcome handed to the caller: exit_code = exitCode, duration_ms =   *)
(* duration (0 included), error_message = error (stated for the states     *)
(* whose only row is the one row of the call).                             *)
C19_RowMatchesOutcome ==
  \A c \in CallIds :
    (/\ Returned(c)
     /\ calls[c].records = 1
     /\ calls[c].rows = 1
     /\ Len(launch_history) = 1) =>
      /\ launch_history[1].exit_code = calls[c].result.exitCode
      /\ launch_history[1].duration_ms = calls[c].result.duration
      /\ launch_history[1].error_message = calls[c].result.error

(* C20, as stated: an outcome with success = false and no error string     *)
(* carries an exitCode other than 0, that of a child that ran to its end;  *)
(* and an outcome carries an exitCode only if the child ran to its end.    *)
C20_FailureHasExitCode ==
  \A c \in CallIds :
    Returned(c) =>
      /\ (~calls[c].result.success /\ calls[c].result.error = NoStr) =>
           /\ calls[c].result.exitCode # Absent
           /\ calls[c].result.exitCode # 0
      /\ calls[c].result.exitCode # Absent =>
           /\ calls[c].events # <<>>
           /\ calls[c].events[1].kind = "exit"

(* C20, amended: an outcome with success = false and no error string comes *)
(* from the 'exit' event of the child of an attached launch with a code    *)
(* other than 0: a non-zero exit code, which the outcome carries as        *)
(* exitCode, or no code (the child was ended by a signal), where the       *)
(* outcome carries no exitCode.  An outcome carries an exitCode only if    *)
(* the child exited with that code.                                        *)
C20_FailureFromExit ==
  \A c \in CallIds :
    Returned(c) =>
      /\ (~calls[c].result.success /\ calls[c].result.error = NoStr) =>
           /\ AttachedSpawned(c)
           /\ calls[c].events # <<>>
           /\ calls[c].events[1].kind = "exit"
           /\ calls[c].events[1].code # 0
           /\ calls[c].result.exitCode = calls[c].events[1].code
      /\ calls[c].result.exitCode # Absent =>
           /\ calls[c].events # <<>>
           /\ calls[c].events[1].kind = "exit"
           /\ calls[c].events[1].code = calls[c].result.exitCode

(* An attached call whose child was ended by a signal. *)
C20_Witness ==
  \E c \in CallIds :
    /\ Returned(c)
    /\ ~calls[c].result.success
    /\ calls[c].result.error = NoStr
    /\ calls[c].events[1].kind = "exit"
    /\ calls[c].events[1].code = Absent

(* C24: an attached launch appends at most one launch_history row and     *)
(* increments launch_count at most once, whichever events its child emits. *)
C24_AttachedRecordsOnce ==
  \A c \in CallIds :
    calls[c].waitForExit =>
      /\ calls[c].records <= 1
      /\ calls[c].rows <= 1
      /\ calls[c].incs <= 1

-----------------------------------------------------------------------------
(* Properties of the terminal detector (checked under SpecDetect)          *)

(* The earliest entry of the priority list that lies in the set found, or  *)
(* NoStr when none does.                                                   *)
EarliestIn(found) ==
  IF \E i \in DOMAIN terminals : terminals[i] \in found
    THEN terminals[CHOOSE i \in DOMAIN terminals :
                     /\ terminals[i] \in found
                     /\ \A j \in 1..(i - 1) : terminals[j] \notin found]
    ELSE NoStr

(* C9, as stated: detectTerminal returns the earliest entry of the         *)
(* priority list that is present on the host, null when none is present,   *)
(* and never throws, also when a probe fails to run.                       *)
C9_EarliestPresent ==
  detect.done =>
    /\ ~detect.threw
    /\ detect.result = EarliestIn(detect.present)

(* C9, amended: detectTerminal returns the earliest entry of the priority  *)
(* list whose probe ran and exited 0 (a present terminal whose probe fails *)
(* to run is passed over like an absent one), so the earliest present      *)
(* entry when every probe runs; null when no probe exits 0; and it never   *)
(* throws, also when a probe fails to run.                                 *)
C9_EarliestProbed ==
  detect.done =>
    /\ ~detect.threw
    /\ detect.result = EarliestIn(detect.present \ detect.failing)
    /\ detect.failing = {} => detect.result = EarliestIn(detect.present)
    /\ detect.present = {} => detect.result = NoStr

(* A probe failed to run on a present terminal ahead of another present    *)
(* one, and detection returned that later one.                             *)
C9_Witness ==
  /\ detect.done
  /\ detect.failing # {}
  /\ detect.failing \subseteq detect.present
  /\ detect.result # NoStr
  /\ detect.result # EarliestIn(detect.present)

-----------------------------------------------------------------------------
(* Properties of the command builder (checked under SpecBuild)             *)

EmulatorBinary(terminal) ==
  IF terminal \in Range(terminals) THEN terminal ELSE "xterm"

WrappingFlags(terminal) ==
  CASE terminal = "kitty"          -> <<>>
    [] terminal = "wezterm"        -> <<"start", "--">>
    [] terminal = "gnome-terminal" -> <<"--">>
    [] terminal = "terminator"     -> <<"-x">>
    [] OTHER                       -> <<"-e">>

RECURSIVE SpaceJoined(_, _)
SpaceJoined(prefix, args) ==
  IF args = <<>> THEN prefix
  ELSE SpaceJoined(prefix \o " " \o Head(args), Tail(args))

(* C10: the argv of buildLaunchCommand is the emulator binary (the         *)
(* identifier of a known terminal, xterm for any other), that terminal's   *)
(* wrapping flags, sh, -c, and last the command string: the command alone  *)
(* for empty args, else command and args joined by single spaces, nothing  *)
(* quoted; alacritty with htop gives [alacritty, -e, sh, -c, htop].        *)
C10_Argv ==
  build.done =>
    /\ build.argv = <<EmulatorBinary(build.terminal)>>
                      \o WrappingFlags(build.terminal)
                      \o <<"sh", "-c">>
                      \o <<SpaceJoined(build.command, build.args)>>
    /\ build.args = <<>> => build.argv[Len(build.argv)] = build.command
    /\ (build.terminal = "alacritty" /\ build.command = "htop"
          /\ build.args = <<>>)
         => build.argv = <<"alacritty", "-e", "sh", "-c", "htop">>
    /\ (build.command = "htop" /\ build.args = <<"--arg1", "--arg2">>)
         => build.argv[Len(build.argv)] = "htop --arg1 --arg2"

(* An unrecognised terminal with a non-empty argument list was built.      *)
C10_Witness ==
  /\ build.done
  /\ build.terminal \notin Range(terminals)
  /\ Len(build.args) = 2
  /\ build.argv[1] = "xterm"

-----------------------------------------------------------------------------
(* Properties of the Showcase tab with the launcher and the registry       *)
(* (checked under SpecShowcase)                                            *)

(* The launcher.launch calls that have started and not resolved. *)
InFlight == {c \in CallIds : calls[c].pc \in {"detecting", "pending"}}

(* C12: the user interface has at most one launcher.launch call in flight, *)
(* whatever keys arrive on the Showcase tab.                               *)
C12_OneLaunchAtATime == Cardinality(InFlight) <= 1

(* C13: every launch_history row refers to a row of tuis; and a step       *)
(* leaves the rows of the targets that exist after it as they were, in     *)
(* order, at the head of the table, so a row goes only with its target and *)
(* no row changes.                                                         *)
C13_HistoryAppendOnly ==
  /\ [](\A i \in DOMAIN launch_history :
          launch_history[i].tui_id \in DOMAIN tuis)
  /\ [][LET kept == SelectSeq(launch_history,
                              LAMBDA r : r.tui_id \in DOMAIN tuis')
        IN  /\ Len(launch_history') >= Len(kept)
            /\ SubSeq(launch_history', 1, Len(kept)) = kept]_vars

(* Two recorded launches, the target of one deleted since: its row is gone *)
(* and the row of the other is the whole table.                            *)
C13_Witness ==
  \E c, d \in CallIds :
    /\ calls[c].rows = 1
    /\ calls[c].tui_id \notin DOMAIN tuis
    /\ calls[d].rows = 1
    /\ calls[d].tui_id \in DOMAIN tuis
    /\ Len(launch_history) = 1
    /\ launch_history[1].tui_id = calls[d].tui_id

(* The TUI objects of all rows. *)
AllTUIs(t) == {rowToTUI(id, t[id]) : id \in DOMAIN t}

(* C18: getRandom(false) may return every TUI of the registry, installed   *)
(* or not, and null only on an empty registry; getRandom(true) may return  *)
(* exactly the installed ones.                                             *)
C18_GetRandomAny ==
  /\ getRandom(tuis, FALSE) =
       (IF DOMAIN tuis = {} THEN {NoTUI} ELSE AllTUIs(tuis))
  /\ getRandom(tuis, TRUE) =
       (IF \E x \in AllTUIs(tuis) : x.is_installed
          THEN {x \in AllTUIs(tuis) : x.is_installed}
          ELSE {NoTUI})

-----------------------------------------------------------------------------
(* Properties of the keyboard handlers and of start-up (checked under      *)
(* SpecApp)                                                                *)

(* C14: after a digit key n in 1..7 the n-th tab is the active one and the *)
(* selected one, whatever tab was active before.                           *)
C14_DigitSelectsTab ==
  /\ key = "1" => activeTab = "installed" /\ selectedTabIndex = 0
  /\ key = "2" => activeTab = "discover" /\ selectedTabIndex = 1
  /\ key = "3" => activeTab = "categories" /\ selectedTabIndex = 2
  /\ key = "4" => activeTab = "favorites" /\ selectedTabIndex = 3
  /\ key = "5" => activeTab = "showcase" /\ selectedTabIndex = 4
  /\ key = "6" => activeTab = "settings" /\ selectedTabIndex = 5
  /\ key = "7" => activeTab = "search" /\ selectedTabIndex = 6

(* The key 7 has just made Search the active tab. *)
C14_Witness ==
  /\ key = "7"
  /\ activeTab = "search"
  /\ proc = "running"

(* C15: after the key q or Q the application has quit. *)
C15_QuitOnQ == key \in {"q", "Q"} => proc = "exited"

(* C16: on the Showcase tab the key f or F flips is_favorite of the shown  *)
(* TUI in the registry, and the tab then shows that TUI with the new flag. *)
C16_FavoriteToggle ==
  [][(/\ key' \in {"f", "F"}
      /\ proc = "running"
      /\ activeTab = "showcase"
      /\ showcaseTUI # NoTUI
      /\ showcaseTUI.id \in DOMAIN tuis) =>
       /\ DOMAIN tuis' = DOMAIN tuis
       /\ tuis'[showcaseTUI.id].is_favorite = ~tuis[showcaseTUI.id].is_favorite
       /\ showcaseTUI'.id = showcaseTUI.id
       /\ showcaseTUI'.is_favorite = tuis'[showcaseTUI.id].is_favorite]_vars

(* The slugs of the rows of table tuis. *)
SlugsOf(t) == {t[id].slug : id \in DOMAIN t}

(* C17: a start on an empty registry leaves it holding the builtin TUIs,   *)
(* one row each; a start on a registry that holds a TUI leaves it as it    *)
(* was; and no two rows ever share a slug.                                 *)
C17_SeedWhenEmpty ==
  /\ [][(proc # "running" /\ proc' = "running") =>
          IF DOMAIN tuis = {}
            THEN /\ SlugsOf(tuis') = {builtinSlugs[i] : i \in 1..MaxTuis}
                 /\ Cardinality(DOMAIN tuis') = MaxTuis
            ELSE tuis' = tuis]_vars
  /\ [](\A a, b \in DOMAIN tuis : tuis[a].slug = tuis[b].slug => a = b)

(* The application runs on a registry that was emptied and seeded again. *)
C17_Witness ==
  /\ proc = "running"
  /\ sqlite_sequence = 2 * MaxTuis
  /\ Cardinality(DOMAIN tuis) = MaxTuis
  /\ SlugsOf(tuis) = {builtinSlugs[i] : i \in 1..MaxTuis}

(* A step that handles an arrow key, or h or l, with the Showcase tab      *)
(* rendered.                                                               *)
ArrowOnShowcase ==
  /\ key' \in {"left", "right", "h", "l"}
  /\ proc = "running"
  /\ activeTab = "showcase"

(* C22: the selected Showcase button is one of 0, 1, 2; left or h moves it *)
(* down by one and right or l up by one, stopping at 0 and at 2; and a     *)
(* newly loaded TUI puts it back to 0.                                     *)
C22_ButtonSelection ==
  [][/\ selectedButton' \in 0..2
     /\ (ArrowOnShowcase /\ key' \in {"left", "h"}) =>
          selectedButton' =
            (IF selectedButton = 0 THEN 0 ELSE selectedButton - 1)
     /\ (ArrowOnShowcase /\ key' \in {"right", "l"}) =>
          selectedButton' =
            (IF selectedButton = 2 THEN 2 ELSE selectedButton + 1)
     /\ (key' = "s" /\ showcaseTUI' # showcaseTUI) =>
          selectedButton' = 0]_vars

(* C26: an arrow key, or h or l, on the Showcase tab leaves the active tab *)
(* and the selected tab as they were.                                      *)
C26_ArrowKeepsTab ==
  [][ArrowOnShowcase =>
       /\ activeTab' = activeTab
       /\ selectedTabIndex' = selectedTabIndex]_vars

-----------------------------------------------------------------------------
(* Properties of the registry (checked under SpecRegistry)                 *)

(* C23: no two rows of tuis share a slug, whatever adds, updates and       *)
(* deletes have run; and an add with a slug that a row holds throws and    *)
(* leaves the table and its id sequence as they were.                      *)
C23_SlugsUnique ==
  /\ [](\A a, b \in DOMAIN tuis : tuis[a].slug = tuis[b].slug => a = b)
  /\ [][(registryCall'.op = "add" /\ registryCall'.slug \in SlugsOf(tuis)) =>
          /\ registryCall'.threw
          /\ tuis' = tuis
          /\ sqlite_sequence' = sqlite_sequence]_vars
  /\ [][(registryCall'.op = "add" /\ registryCall'.slug \notin SlugsOf(tuis)) =>
          /\ ~registryCall'.threw
          /\ SlugsOf(tuis') = SlugsOf(tuis) \cup {registryCall'.slug}]_vars

(* An add was refused for its slug on a registry of two TUIs, one of which *)
(* got its slug by an update.                                              *)
C23_Witness ==
  /\ registryCall.op = "add"
  /\ registryCall.threw
  /\ registryCall.slug \in SlugsOf(tuis)
  /\ Cardinality(DOMAIN tuis) = 2
  /\ \E id \in DOMAIN tuis : tuis[id].slug # tuis[id].command

-----------------------------------------------------------------------------
(* Properties of the Launch button (checked under SpecShowcase)            *)

(* The shown TUI is installed, has a command and has an id. *)
Launchable(tui) ==
  /\ tui # NoTUI
  /\ tui.is_installed
  /\ tui.command \notin {NoStr, ""}
  /\ tui.id >= 1

(* C25: a step starts a launcher.launch call only from Enter or Space on a *)
(* shown TUI that is installed and has a command and an id, and for that   *)
(* TUI; Enter or Space on the Launch button with any other TUI shown       *)
(* starts no call and leaves both tables as they were.                     *)
C25_LaunchOnlyInstalled ==
  [][/\ \A c \in CallIds :
          (calls[c].pc = "new" /\ calls'[c].pc # "new") =>
            /\ key' \in {"return", " "}
            /\ Launchable(showcaseTUI)
            /\ calls'[c].tui_id = showcaseTUI.id
            /\ calls'[c].command = showcaseTUI.command
     /\ (/\ key' \in {"return", " "}
         /\ activeTab = "showcase"
         /\ selectedButton = 0
         /\ ~Launchable(showcaseTUI)) =>
          /\ calls' = calls
          /\ tuis' = tuis
          /\ launch_history' = launch_history]_vars

(* Enter on an installed TUI without a command: no call has started. *)
C25_Witness ==
  /\ key = "return"
  /\ activeTab = "showcase"
  /\ showcaseTUI.is_installed
  /\ showcaseTUI.command = ""
  /\ \A c \in CallIds : calls[c].pc = "new"

-----------------------------------------------------------------------------
(* Properties of the terminal launch resolves (checked under SpecTerminal) *)

(* The call has got past the resolution of its terminal. *)
Resolved(c) == calls[c].pc \in {"pending", "returned"}

(* C21, as stated: a call with options.terminal supplied never detects,    *)
(* runs no probe and hands spawn the argv of the supplied terminal.        *)
C21_SuppliedTerminalUsed ==
  \A c \in CallIds :
    calls[c].optTerminal # NoStr =>
      /\ calls[c].pc # "detecting"
      /\ calls[c].probes = 0
      /\ Resolved(c) =>
           /\ calls[c].terminal = calls[c].optTerminal
           /\ calls[c].argv = buildLaunchCommand(calls[c].optTerminal,
                                                 calls[c].command,
                                                 calls[c].args)

(* C21, amended: a call with a non-empty options.terminal never detects,   *)
(* runs no probe and hands spawn the argv buildLaunchCommand gives for     *)
(* that value; a call with options.terminal absent or empty runs the       *)
(* detector and uses its result: no terminal, or the terminal the last     *)
(* probe found and the argv for it.                                        *)
C21_NonEmptyTerminalUsed ==
  \A c \in CallIds :
    /\ calls[c].optTerminal \notin {NoStr, ""} =>
         /\ calls[c].pc # "detecting"
         /\ calls[c].probes = 0
         /\ calls[c].pc # "new" =>
              /\ calls[c].terminal = calls[c].optTerminal
              /\ calls[c].argv = buildLaunchCommand(calls[c].optTerminal,
                                                    calls[c].command,
                                                    calls[c].args)
    /\ (calls[c].optTerminal \in {NoStr, ""} /\ Resolved(c)) =>
         /\ calls[c].probes \in 1..Len(terminals)
         /\ \/ /\ calls[c].terminal = NoStr
               /\ calls[c].probes = Len(terminals)
               /\ calls[c].result.error = NoTerminalMessage
            \/ /\ calls[c].terminal = terminals[calls[c].probes]
               /\ calls[c].argv = buildLaunchCommand(calls[c].terminal,
                                                     calls[c].command,
                                                     calls[c].args)

(* A call with the empty string as options.terminal that detected kitty   *)
(* with two probes and handed spawn the argv for kitty.                    *)
C21_Witness ==
  /\ calls[1].optTerminal = ""
  /\ Resolved(1)
  /\ calls[1].terminal = "kitty"
  /\ calls[1].probes = 2
  /\ calls[1].argv[1] = "kitty"

====
